---------------------------- MODULE Spec2Model ----------------------------
(***************************************************************************)
(* Model of repo_skill_scanner.py (the scanner: signal extractors, the     *)
(* per-repository scan, the classifier, the aggregator and main) and of    *)
(* report_generator.py (the per-repository report).                        *)
(*                                                                         *)
(* Text is modelled as it is in the program: a Python str is a sequence    *)
(* of one-character strings (tokens, keys, paths, file contents, URLs).    *)
(* Labels and categories are never taken apart by the code, only compared  *)
(* and sorted, and are TLA+ strings.  A dict whose iteration order reaches *)
(* the output is a sequence of entries in insertion order.                 *)
(***************************************************************************)
EXTENDS Integers, Sequences, FiniteSets, TLC

(***************************************************************************)
(* Characters and str operations                                           *)
(***************************************************************************)

\* The printable ASCII characters in code point order (32 .. 126); the grave
\* accent (96), which no text of the model holds, is left as a placeholder.
ASCII ==
  <<
     " ", "!", "\"", "#", "$", "%", "&", "'", "(", ")", "*", "+", ",", "-", ".", "/",
     "0", "1", "2", "3", "4", "5", "6", "7", "8", "9", ":", ";", "<", "=", ">", "?",
     "@", "A", "B", "C", "D", "E", "F", "G", "H", "I", "J", "K", "L", "M", "N", "O",
     "P", "Q", "R", "S", "T", "U", "V", "W", "X", "Y", "Z", "[", "\\", "]", "^", "_",
     "(grave)", "a", "b", "c", "d", "e", "f", "g", "h", "i", "j", "k", "l", "m", "n", "o",
     "p", "q", "r", "s", "t", "u", "v", "w", "x", "y", "z", "{", "|", "}", "~"
  >>

\* ord(c) for the characters the model uses.
Code(c) ==
  IF \E i \in DOMAIN ASCII : ASCII[i] = c
  THEN 31 + (CHOOSE i \in DOMAIN ASCII : ASCII[i] = c)
  ELSE IF c = "\t" THEN 9 ELSE IF c = "\n" THEN 10 ELSE 13

\* str.lower() on one character, and on a str.
LowerChar(c) ==
  IF Code(c) \in 65..90 THEN ASCII[Code(c) + 32 - 31] ELSE c

Lower(s) == [i \in 1..Len(s) |-> LowerChar(s[i])]

\* Every character a text of the model may hold.
AllChars == {ASCII[i] : i \in DOMAIN ASCII} \cup {"\t", "\n", "\r"}

\* The character classes of the regular expressions: \w, \s,
\* [a-zA-Z0-9_\.] (IMPORT_RE_PY, IMPORT_RE_JAVA), [a-zA-Z0-9_\-.] (the manifest
\* tokenizer), [^>"] (INCLUDE_RE_C), [^'"] (the ECMAScript patterns) and "." .
WordChars == {c \in AllChars : Code(c) \in (48..57) \cup (65..90) \cup (97..122) \/ c = "_"}

SpaceChars == {" ", "\t", "\n", "\r"}

DottedChars == WordChars \cup {"."}

ManifestChars == WordChars \cup {"-", "."}

HeaderChars == AllChars \ {">", "\""}

UnquotedChars == AllChars \ {"'", "\""}

NotNewline == AllChars \ {"\n"}

Range(s) == {s[i] : i \in DOMAIN s}

\* s[i:] and s[:i] by 1-based position.
From(s, i) == SubSeq(s, i, Len(s))

\* text.startswith(p, at position i)
MatchAt(p, text, i) ==
  /\ i >= 1
  /\ i + Len(p) - 1 <= Len(text)
  /\ SubSeq(text, i, i + Len(p) - 1) = p

StartsWith(s, p) == MatchAt(p, s, 1)

\* key in text
Contains(key, text) ==
  \E i \in 1..(Len(text) - Len(key) + 1) : MatchAt(key, text, i)

\* The end of the maximal run of characters of the class Cls (a set of
\* characters) that starts at position i, i - 1 when the run is empty: a greedy
\* character-class loop of a regular expression.
RECURSIVE RunEnd(_, _, _)
RunEnd(text, i, Cls) ==
  IF i <= Len(text) /\ text[i] \in Cls THEN RunEnd(text, i + 1, Cls) ELSE i - 1

\* s.split(sep)[0], sep one character.
SplitFirst(s, sep) ==
  IF \E i \in DOMAIN s : s[i] = sep
  THEN SubSeq(s, 1, (CHOOSE i \in DOMAIN s : s[i] = sep /\ \A j \in 1..(i - 1) : s[j] # sep) - 1)
  ELSE s

\* s.split(sep)[-1], sep one character.
SplitLast(s, sep) ==
  IF \E i \in DOMAIN s : s[i] = sep
  THEN From(s, (CHOOSE i \in DOMAIN s : s[i] = sep /\ \A j \in (i + 1)..Len(s) : s[j] # sep) + 1)
  ELSE s

\* s.rstrip(c)
RECURSIVE RStrip(_, _)
RStrip(s, c) ==
  IF Len(s) > 0 /\ s[Len(s)] = c THEN RStrip(SubSeq(s, 1, Len(s) - 1), c) ELSE s

\* s.replace(old, ""), every occurrence, left to right.
RECURSIVE RemoveAll(_, _)
RemoveAll(s, old) ==
  IF s = <<>> THEN <<>>
  ELSE IF StartsWith(s, old) THEN RemoveAll(From(s, Len(old) + 1), old)
  ELSE <<Head(s)>> \o RemoveAll(Tail(s), old)

\* a < b on str: lexicographic by code point.
RECURSIVE StrLess(_, _)
StrLess(a, b) ==
  IF b = <<>> THEN FALSE
  ELSE IF a = <<>> THEN TRUE
  ELSE IF a[1] = b[1] THEN StrLess(Tail(a), Tail(b))
  ELSE Code(a[1]) < Code(b[1])

\* sorted(S) for a set of str.
RECURSIVE SortedPaths(_)
SortedPaths(S) ==
  IF S = {} THEN <<>>
  ELSE LET m == CHOOSE x \in S : \A y \in S \ {x} : StrLess(x, y)
       IN  <<m>> \o SortedPaths(S \ {m})

(***************************************************************************)
(* Taxonomy tables                                                         *)
(***************************************************************************)

\* PACKAGE_KEYWORD_MAP: dict in insertion order, token -> (label, category).
PACKAGE_KEYWORD_MAP ==
  <<
    [key |-> <<"b", "o", "t", "o", "3">>, label |-> "AWS (boto3)", category |-> "Cloud"],
    [key |-> <<"a", "w", "s">>, label |-> "AWS", category |-> "Cloud"],
    [key |-> <<"a", "w", "s", "-", "s", "d", "k">>, label |-> "AWS SDK (Node.js)", category |-> "Cloud"],
    [key |-> <<"a", "z", "u", "r", "e">>, label |-> "Azure", category |-> "Cloud"],
    [key |-> <<"g", "o", "o", "g", "l", "e", "-", "c", "l", "o", "u", "d">>, label |-> "Google Cloud", category |-> "Cloud"],
    [key |-> <<"p", "u", "l", "u", "m", "i">>, label |-> "Pulumi", category |-> "Cloud / IaC"],
    [key |-> <<"t", "e", "r", "r", "a", "f", "o", "r", "m">>, label |-> "Terraform", category |-> "Cloud / IaC"],
    [key |-> <<"k", "u", "b", "e", "r", "n", "e", "t", "e", "s">>, label |-> "Kubernetes", category |-> "Containers / Orchestration"],
    [key |-> <<"h", "e", "l", "m">>, label |-> "Helm", category |-> "Containers / Orchestration"],
    [key |-> <<"f", "l", "a", "s", "k">>, label |-> "Flask", category |-> "Web & APIs"],
    [key |-> <<"f", "a", "s", "t", "a", "p", "i">>, label |-> "FastAPI", category |-> "Web & APIs"],
    [key |-> <<"d", "j", "a", "n", "g", "o">>, label |-> "Django", category |-> "Web & APIs"],
    [key |-> <<"e", "x", "p", "r", "e", "s", "s">>, label |-> "Express.js", category |-> "Web & APIs"],
    [key |-> <<"n", "e", "s", "t", "j", "s">>, label |-> "NestJS", category |-> "Web & APIs"],
    [key |-> <<"s", "p", "r", "i", "n", "g">>, label |-> "Spring Framework", category |-> "Web & APIs"],
    [key |-> <<"s", "p", "r", "i", "n", "g", "b", "o", "o", "t">>, label |-> "Spring Boot", category |-> "Web & APIs"],
    [key |-> <<"g", "r", "p", "c">>, label |-> "gRPC", category |-> "Web & APIs"],
    [key |-> <<"r", "e", "a", "c", "t">>, label |-> "React", category |-> "Frontend"],
    [key |-> <<"r", "e", "a", "c", "t", "-", "d", "o", "m">>, label |-> "React", category |-> "Frontend"],
    [key |-> <<"n", "e", "x", "t">>, label |-> "Next.js", category |-> "Frontend"],
    [key |-> <<"v", "u", "e">>, label |-> "Vue.js", category |-> "Frontend"],
    [key |-> <<"a", "n", "g", "u", "l", "a", "r">>, label |-> "Angular", category |-> "Frontend"],
    [key |-> <<"s", "v", "e", "l", "t", "e">>, label |-> "Svelte", category |-> "Frontend"],
    [key |-> <<"a", "x", "i", "o", "s">>, label |-> "axios (HTTP client)", category |-> "Frontend"],
    [key |-> <<"r", "e", "d", "u", "x">>, label |-> "Redux", category |-> "Frontend"],
    [key |-> <<"t", "a", "i", "l", "w", "i", "n", "d">>, label |-> "Tailwind CSS", category |-> "Frontend"],
    [key |-> <<"b", "o", "o", "t", "s", "t", "r", "a", "p">>, label |-> "Bootstrap", category |-> "Frontend"],
    [key |-> <<"n", "u", "m", "p", "y">>, label |-> "NumPy", category |-> "Data & Analysis"],
    [key |-> <<"p", "a", "n", "d", "a", "s">>, label |-> "Pandas", category |-> "Data & Analysis"],
    [key |-> <<"s", "c", "i", "p", "y">>, label |-> "SciPy", category |-> "Data & Analysis"],
    [key |-> <<"s", "k", "l", "e", "a", "r", "n">>, label |-> "scikit-learn", category |-> "ML/AI"],
    [key |-> <<"x", "g", "b", "o", "o", "s", "t">>, label |-> "XGBoost", category |-> "ML/AI"],
    [key |-> <<"l", "i", "g", "h", "t", "g", "b", "m">>, label |-> "LightGBM", category |-> "ML/AI"],
    [key |-> <<"t", "e", "n", "s", "o", "r", "f", "l", "o", "w">>, label |-> "TensorFlow", category |-> "ML/AI"],
    [key |-> <<"t", "o", "r", "c", "h">>, label |-> "PyTorch", category |-> "ML/AI"],
    [key |-> <<"k", "e", "r", "a", "s">>, label |-> "Keras", category |-> "ML/AI"],
    [key |-> <<"o", "p", "e", "n", "c", "v">>, label |-> "OpenCV", category |-> "Computer Vision"],
    [key |-> <<"t", "r", "a", "n", "s", "f", "o", "r", "m", "e", "r", "s">>, label |-> "Hugging Face Transformers", category |-> "ML/AI"],
    [key |-> <<"s", "q", "l", "a", "l", "c", "h", "e", "m", "y">>, label |-> "SQLAlchemy", category |-> "Databases"],
    [key |-> <<"p", "s", "y", "c", "o", "p", "g", "2">>, label |-> "PostgreSQL", category |-> "Databases"],
    [key |-> <<"m", "y", "s", "q", "l">>, label |-> "MySQL", category |-> "Databases"],
    [key |-> <<"p", "y", "m", "o", "n", "g", "o">>, label |-> "MongoDB", category |-> "Databases"],
    [key |-> <<"r", "e", "d", "i", "s">>, label |-> "Redis", category |-> "Databases"],
    [key |-> <<"e", "l", "a", "s", "t", "i", "c", "s", "e", "a", "r", "c", "h">>, label |-> "Elasticsearch", category |-> "Databases / Search"],
    [key |-> <<"k", "a", "f", "k", "a">>, label |-> "Apache Kafka", category |-> "Streaming"],
    [key |-> <<"p", "u", "l", "s", "a", "r">>, label |-> "Apache Pulsar", category |-> "Streaming"],
    [key |-> <<"r", "a", "b", "b", "i", "t", "m", "q">>, label |-> "RabbitMQ", category |-> "Messaging"],
    [key |-> <<"p", "y", "t", "e", "s", "t">>, label |-> "pytest", category |-> "Testing"],
    [key |-> <<"u", "n", "i", "t", "t", "e", "s", "t">>, label |-> "unittest", category |-> "Testing"],
    [key |-> <<"j", "e", "s", "t">>, label |-> "Jest", category |-> "Testing"],
    [key |-> <<"m", "o", "c", "h", "a">>, label |-> "Mocha", category |-> "Testing"],
    [key |-> <<"c", "y", "p", "r", "e", "s", "s">>, label |-> "Cypress", category |-> "Testing"],
    [key |-> <<"p", "r", "o", "m", "e", "t", "h", "e", "u", "s">>, label |-> "Prometheus", category |-> "Observability"],
    [key |-> <<"g", "r", "a", "f", "a", "n", "a">>, label |-> "Grafana", category |-> "Observability"],
    [key |-> <<"o", "p", "e", "n", "t", "e", "l", "e", "m", "e", "t", "r", "y">>, label |-> "OpenTelemetry", category |-> "Observability"],
    [key |-> <<"j", "w", "t">>, label |-> "JWT Authentication", category |-> "Security"],
    [key |-> <<"o", "a", "u", "t", "h">>, label |-> "OAuth", category |-> "Security"],
    [key |-> <<"b", "c", "r", "y", "p", "t">>, label |-> "bcrypt", category |-> "Security"],
    [key |-> <<"t", "k", "i", "n", "t", "e", "r">>, label |-> "Tkinter", category |-> "GUI / Desktop"],
    [key |-> <<"p", "y", "q", "t", "5">>, label |-> "PyQt5", category |-> "GUI / Desktop"],
    [key |-> <<"p", "y", "q", "t">>, label |-> "PyQt", category |-> "GUI / Desktop"],
    [key |-> <<"p", "y", "s", "i", "d", "e", "2">>, label |-> "PySide2", category |-> "GUI / Desktop"],
    [key |-> <<"p", "y", "s", "i", "d", "e", "6">>, label |-> "PySide6", category |-> "GUI / Desktop"],
    [key |-> <<"w", "x">>, label |-> "wxPython", category |-> "GUI / Desktop"],
    [key |-> <<"k", "i", "v", "y">>, label |-> "Kivy", category |-> "GUI / Desktop"]
  >>

\* KEYWORD_MAP: dict in insertion order, token -> (label, category).
KEYWORD_MAP ==
  <<
    [key |-> <<".", "g", "i", "t", "h", "u", "b", "/", "w", "o", "r", "k", "f", "l", "o", "w", "s">>, label |-> "GitHub Actions (CI/CD)", category |-> "CI/CD"],
    [key |-> <<"g", "i", "t", "l", "a", "b", "-", "c", "i">>, label |-> "GitLab CI", category |-> "CI/CD"],
    [key |-> <<"j", "e", "n", "k", "i", "n", "s">>, label |-> "Jenkins", category |-> "CI/CD"],
    [key |-> <<"c", "i", "r", "c", "l", "e", "c", "i">>, label |-> "CircleCI", category |-> "CI/CD"],
    [key |-> <<"a", "z", "u", "r", "e", "-", "p", "i", "p", "e", "l", "i", "n", "e", "s">>, label |-> "Azure Pipelines", category |-> "CI/CD"],
    [key |-> <<"t", "e", "r", "r", "a", "f", "o", "r", "m">>, label |-> "Terraform", category |-> "Cloud / IaC"],
    [key |-> <<"c", "l", "o", "u", "d", "f", "o", "r", "m", "a", "t", "i", "o", "n">>, label |-> "AWS CloudFormation", category |-> "Cloud / IaC"],
    [key |-> <<"p", "u", "l", "u", "m", "i">>, label |-> "Pulumi", category |-> "Cloud / IaC"],
    [key |-> <<"k", "u", "b", "e", "r", "n", "e", "t", "e", "s">>, label |-> "Kubernetes", category |-> "Containers / Orchestration"],
    [key |-> <<"k", "8", "s">>, label |-> "Kubernetes", category |-> "Containers / Orchestration"],
    [key |-> <<"h", "e", "l", "m">>, label |-> "Helm", category |-> "Containers / Orchestration"],
    [key |-> <<"c", "u", "d", "a">>, label |-> "CUDA / NVIDIA (GPU)", category |-> "Performance / GPU"],
    [key |-> <<"n", "v", "i", "d", "i", "a">>, label |-> "NVIDIA / CUDA (GPU)", category |-> "Performance / GPU"],
    [key |-> <<"o", "p", "e", "n", "m", "p">>, label |-> "OpenMP", category |-> "Performance"],
    [key |-> <<"m", "p", "i">>, label |-> "MPI", category |-> "Performance"],
    [key |-> <<"s", "p", "a", "r", "k">>, label |-> "Apache Spark", category |-> "Data Engineering"],
    [key |-> <<"h", "a", "d", "o", "o", "p">>, label |-> "Hadoop", category |-> "Data Engineering"],
    [key |-> <<"a", "i", "r", "f", "l", "o", "w">>, label |-> "Apache Airflow", category |-> "Data Engineering"],
    [key |-> <<"d", "b", "t">>, label |-> "dbt", category |-> "Data Engineering"],
    [key |-> <<"o", "a", "u", "t", "h">>, label |-> "OAuth", category |-> "Security"],
    [key |-> <<"o", "p", "e", "n", "i", "d">>, label |-> "OpenID Connect", category |-> "Security"],
    [key |-> <<"s", "a", "m", "l">>, label |-> "SAML", category |-> "Security"],
    [key |-> <<"t", "k", "i", "n", "t", "e", "r">>, label |-> "Tkinter", category |-> "GUI / Desktop"],
    [key |-> <<"p", "y", "q", "t", "5">>, label |-> "PyQt5", category |-> "GUI / Desktop"],
    [key |-> <<"p", "y", "s", "i", "d", "e">>, label |-> "PySide", category |-> "GUI / Desktop"],
    [key |-> <<"w", "x", "p", "y", "t", "h", "o", "n">>, label |-> "wxPython", category |-> "GUI / Desktop"],
    [key |-> <<"k", "i", "v", "y">>, label |-> "Kivy", category |-> "GUI / Desktop"]
  >>

\* MANIFEST_FILES: the recognised dependency-manifest file names.
MANIFEST_FILES ==
  {<<"b", "u", "i", "l", "d", ".", "g", "r", "a", "d", "l", "e">>,
   <<"b", "u", "i", "l", "d", ".", "g", "r", "a", "d", "l", "e", ".", "k", "t", "s">>,
   <<"c", "a", "r", "g", "o", ".", "l", "o", "c", "k">>,
   <<"c", "a", "r", "g", "o", ".", "t", "o", "m", "l">>,
   <<"c", "o", "m", "p", "o", "s", "e", "r", ".", "j", "s", "o", "n">>,
   <<"c", "o", "m", "p", "o", "s", "e", "r", ".", "l", "o", "c", "k">>,
   <<"c", "s", "p", "r", "o", "j">>,
   <<"e", "n", "v", "i", "r", "o", "n", "m", "e", "n", "t", ".", "y", "a", "m", "l">>,
   <<"e", "n", "v", "i", "r", "o", "n", "m", "e", "n", "t", ".", "y", "m", "l">>,
   <<"f", "s", "p", "r", "o", "j">>,
   <<"g", "e", "m", "f", "i", "l", "e">>,
   <<"g", "e", "m", "f", "i", "l", "e", ".", "l", "o", "c", "k">>,
   <<"g", "o", ".", "m", "o", "d">>,
   <<"g", "o", ".", "s", "u", "m">>,
   <<"p", "a", "c", "k", "a", "g", "e", "-", "l", "o", "c", "k", ".", "j", "s", "o", "n">>,
   <<"p", "a", "c", "k", "a", "g", "e", ".", "j", "s", "o", "n">>,
   <<"p", "a", "c", "k", "a", "g", "e", "s", ".", "c", "o", "n", "f", "i", "g">>,
   <<"p", "n", "p", "m", "-", "l", "o", "c", "k", ".", "y", "a", "m", "l">>,
   <<"p", "o", "d", "f", "i", "l", "e">>,
   <<"p", "o", "d", "f", "i", "l", "e", ".", "l", "o", "c", "k">>,
   <<"p", "o", "e", "t", "r", "y", ".", "l", "o", "c", "k">>,
   <<"p", "o", "m", ".", "x", "m", "l">>,
   <<"p", "y", "p", "r", "o", "j", "e", "c", "t", ".", "t", "o", "m", "l">>,
   <<"r", "e", "q", "u", "i", "r", "e", "m", "e", "n", "t", "s", "-", "d", "e", "v", ".", "t", "x", "t">>,
   <<"r", "e", "q", "u", "i", "r", "e", "m", "e", "n", "t", "s", ".", "t", "x", "t">>,
   <<"s", "e", "t", "t", "i", "n", "g", "s", ".", "g", "r", "a", "d", "l", "e">>,
   <<"s", "e", "t", "u", "p", ".", "c", "f", "g">>,
   <<"s", "e", "t", "u", "p", ".", "p", "y">>,
   <<"y", "a", "r", "n", ".", "l", "o", "c", "k">>}

\* Every label of the two tables, in the order sorted() puts Python strings
\* (code point order).
LABELS_SORTED ==
  <<
     "AWS", "AWS (boto3)", "AWS CloudFormation", "AWS SDK (Node.js)",
     "Angular", "Apache Airflow", "Apache Kafka", "Apache Pulsar",
     "Apache Spark", "Azure", "Azure Pipelines", "Bootstrap",
     "CUDA / NVIDIA (GPU)", "CircleCI", "Cypress", "Django",
     "Elasticsearch", "Express.js", "FastAPI", "Flask",
     "GitHub Actions (CI/CD)", "GitLab CI", "Google Cloud", "Grafana",
     "Hadoop", "Helm", "Hugging Face Transformers", "JWT Authentication",
     "Jenkins", "Jest", "Keras", "Kivy",
     "Kubernetes", "LightGBM", "MPI", "Mocha",
     "MongoDB", "MySQL", "NVIDIA / CUDA (GPU)", "NestJS",
     "Next.js", "NumPy", "OAuth", "OpenCV",
     "OpenID Connect", "OpenMP", "OpenTelemetry", "Pandas",
     "PostgreSQL", "Prometheus", "Pulumi", "PyQt",
     "PyQt5", "PySide", "PySide2", "PySide6",
     "PyTorch", "RabbitMQ", "React", "Redis",
     "Redux", "SAML", "SQLAlchemy", "SciPy",
     "Spring Boot", "Spring Framework", "Svelte", "Tailwind CSS",
     "TensorFlow", "Terraform", "Tkinter", "Vue.js",
     "XGBoost", "axios (HTTP client)", "bcrypt", "dbt",
     "gRPC", "pytest", "scikit-learn", "unittest",
     "wxPython"
  >>

\* a < b on labels.
LabelRank(l) == CHOOSE i \in DOMAIN LABELS_SORTED : LABELS_SORTED[i] = l

\* sorted(S) for a set of labels.
RECURSIVE SortedLabels(_)
SortedLabels(S) ==
  IF S = {} THEN <<>>
  ELSE LET m == CHOOSE x \in S : \A y \in S : LabelRank(x) <= LabelRank(y)
       IN  <<m>> \o SortedLabels(S \ {m})

(***************************************************************************)
(* Regular expressions.  A pattern is modelled by its match attempt at one *)
(* start position, [ok, end, group]; FindAll is re.findall: the leftmost   *)
(* match, then the search resumes after its end.                           *)
(***************************************************************************)

NoMatch == [ok |-> FALSE, end |-> 0, group |-> <<>>]

\* "^" under re.MULTILINE.
AtLineStart(text, p) == p = 1 \/ text[p - 1] = "\n"

\* re.findall for a pattern with one group, given the pattern's match attempts
\* m[p] at each position p of the text: the list of the groups of the leftmost
\* non-overlapping matches.  No pattern of the program matches the empty string.
RECURSIVE FindAllFrom(_, _)
FindAllFrom(m, p) ==
  IF p > Len(m) THEN <<>>
  ELSE IF m[p].ok THEN <<m[p].group>> \o FindAllFrom(m, m[p].end + 1)
  ELSE FindAllFrom(m, p + 1)

FindAll(m) == FindAllFrom(m, 1)

\* IMPORT_RE_PY = ^\s*(?:import|from)\s+([a-zA-Z0-9_\.]+)
IMPORT_RE_PY(text, p) ==
  LET a == RunEnd(text, p, SpaceChars) + 1
      k == IF MatchAt(<<"i","m","p","o","r","t">>, text, a) THEN 6
           ELSE IF MatchAt(<<"f","r","o","m">>, text, a) THEN 4 ELSE 0
      b == RunEnd(text, a + k, SpaceChars) + 1
      d == RunEnd(text, b, DottedChars)
  IN  IF AtLineStart(text, p) /\ k > 0 /\ b > a + k /\ d >= b
      THEN [ok |-> TRUE, end |-> d, group |-> SubSeq(text, b, d)]
      ELSE NoMatch

\* IMPORT_RE_JAVA = ^\s*import\s+([a-zA-Z0-9_\.]+);
IMPORT_RE_JAVA(text, p) ==
  LET a == RunEnd(text, p, SpaceChars) + 1
      b == RunEnd(text, a + 6, SpaceChars) + 1
      d == RunEnd(text, b, DottedChars)
  IN  IF /\ AtLineStart(text, p)
         /\ MatchAt(<<"i","m","p","o","r","t">>, text, a)
         /\ b > a + 6 /\ d >= b
         /\ MatchAt(<<";">>, text, d + 1)
      THEN [ok |-> TRUE, end |-> d + 1, group |-> SubSeq(text, b, d)]
      ELSE NoMatch

\* INCLUDE_RE_C = ^\s*#\s*include\s*[<"]([^>"]+)[>"]
INCLUDE_RE_C(text, p) ==
  LET a == RunEnd(text, p, SpaceChars) + 1
      b == RunEnd(text, a + 1, SpaceChars) + 1
      c == RunEnd(text, b + 7, SpaceChars) + 1
      d == RunEnd(text, c + 1, HeaderChars)
  IN  IF /\ AtLineStart(text, p)
         /\ MatchAt(<<"#">>, text, a)
         /\ MatchAt(<<"i","n","c","l","u","d","e">>, text, b)
         /\ (MatchAt(<<"<">>, text, c) \/ MatchAt(<<"\"">>, text, c))
         /\ d >= c + 1
         /\ d + 1 <= Len(text)
      THEN [ok |-> TRUE, end |-> d + 1, group |-> SubSeq(text, c + 1, d)]
      ELSE NoMatch

\* ['"]([^'"]+)['"] at position q: the quoted package name.
Quoted(text, q) ==
  LET d == RunEnd(text, q + 1, UnquotedChars)
  IN  IF /\ (MatchAt(<<"'">>, text, q) \/ MatchAt(<<"\"">>, text, q))
         /\ d >= q + 1
         /\ d + 1 <= Len(text)
      THEN [ok |-> TRUE, end |-> d + 1, group |-> SubSeq(text, q + 1, d)]
      ELSE NoMatch

\* import\s+.*\s+from\s+['"]([^'"]+)['"] .  The three loops before "from"
\* backtrack: x = <<a, b, c>> are the lengths taken by \s+, .* and \s+, and
\* the match is the one the greedy search finds first, the greatest x in
\* lexicographic order.
JS_IMPORT_RE(text, p) ==
  LET n == Len(text)
      q == p + 6
      Tail3(x) ==
        LET f == q + x[1] + x[2] + x[3]
            g == RunEnd(text, f + 4, SpaceChars) + 1
        IN  IF MatchAt(<<"f","r","o","m">>, text, f) /\ g > f + 4
            THEN Quoted(text, g) ELSE NoMatch
      Fits(x) ==
        /\ \A i \in q..(q + x[1] - 1) : text[i] \in SpaceChars
        /\ \A i \in (q + x[1])..(q + x[1] + x[2] - 1) : text[i] \in NotNewline
        /\ \A i \in (q + x[1] + x[2])..(q + x[1] + x[2] + x[3] - 1) :
              text[i] \in SpaceChars
        /\ Tail3(x).ok
      Xs == {x \in (1..n) \X (0..n) \X (1..n) :
                q + x[1] + x[2] + x[3] <= n /\ Fits(x)}
      Before(x, y) ==
        \/ x[1] > y[1]
        \/ x[1] = y[1] /\ x[2] > y[2]
        \/ x[1] = y[1] /\ x[2] = y[2] /\ x[3] > y[3]
  IN  IF MatchAt(<<"i","m","p","o","r","t">>, text, p) /\ Xs # {}
      THEN Tail3(CHOOSE x \in Xs : \A y \in Xs \ {x} : Before(x, y))
      ELSE NoMatch

\* require\(['"]([^'"]+)['"]\)
JS_REQUIRE_RE(text, p) ==
  LET m == Quoted(text, p + 8)
  IN  IF /\ MatchAt(<<"r","e","q","u","i","r","e","(">>, text, p)
         /\ m.ok
         /\ MatchAt(<<")">>, text, m.end + 1)
      THEN [ok |-> TRUE, end |-> m.end + 1, group |-> m.group]
      ELSE NoMatch

\* [a-zA-Z0-9_\-.]+
MANIFEST_TOKEN_RE(text, p) ==
  LET d == RunEnd(text, p, ManifestChars)
  IN  IF d >= p THEN [ok |-> TRUE, end |-> d, group |-> SubSeq(text, p, d)]
      ELSE NoMatch

(***************************************************************************)
(* Signal extractors                                                       *)
(***************************************************************************)

\* \b at the gap before position i.
WordBoundary(text, i) ==
  LET w(j) == j \in 1..Len(text) /\ text[j] \in WordChars
  IN  w(i - 1) # w(i)

\* keyword_present with the whole-word test kept for keys shorter than 4
\* characters only.
keyword_present_below4(key, text) ==
  IF Len(key) < 4
  THEN \E i \in 1..(Len(text) - Len(key) + 1) :
          /\ MatchAt(key, text, i)
          /\ WordBoundary(text, i)
          /\ WordBoundary(text, i + Len(key))
  ELSE Contains(key, text)

keyword_present(key, text) ==
  IF Len(key) <= 4
  THEN \E i \in 1..(Len(text) - Len(key) + 1) :
          /\ MatchAt(key, text, i)
          /\ WordBoundary(text, i)
          /\ WordBoundary(text, i + Len(key))
  ELSE Contains(key, text)

extract_imports_from_py(content) ==
  {SplitFirst(m, ".") : m \in Range(FindAll([p \in 1..Len(content) |-> IMPORT_RE_PY(content, p)]))}

normalize_js_pkg(name) ==
  IF StartsWith(name, <<"@">>) THEN name ELSE SplitFirst(name, "/")

extract_imports_from_js(content) ==
  {normalize_js_pkg(m) : m \in Range(FindAll([p \in 1..Len(content) |-> JS_IMPORT_RE(content, p)]))}
    \cup {normalize_js_pkg(m) : m \in Range(FindAll([p \in 1..Len(content) |-> JS_REQUIRE_RE(content, p)]))}

extract_imports_from_java(content) ==
  {Lower(SplitFirst(m, ".")) : m \in Range(FindAll([p \in 1..Len(content) |-> IMPORT_RE_JAVA(content, p)]))}

\* scan_repo's inline C-family extractor: the list of m.split(".")[0].lower()
\* over INCLUDE_RE_C.findall(content), one entry per inclusion.
include_tokens(content) ==
  LET ms == FindAll([p \in 1..Len(content) |-> INCLUDE_RE_C(content, p)])
  IN  [i \in 1..Len(ms) |-> Lower(SplitFirst(ms[i], "."))]

\* Path(filename).suffix.lower(): from the last "." of the name, when that is
\* neither its first nor its last character.
Suffix(filename) ==
  LET dots == {i \in DOMAIN filename : filename[i] = "."}
      last == CHOOSE i \in dots : \A j \in dots : j <= i
  IN  IF dots = {} THEN <<>>
      ELSE IF last = 1 \/ last = Len(filename) THEN <<>>
      ELSE Lower(From(filename, last))

map_token_to_skill(token) ==
  LET tl == Lower(token)
      hitP(e) == \/ tl = e.key
                 \/ StartsWith(tl, e.key \o <<"-">>)
                 \/ StartsWith(tl, e.key \o <<"_">>)
                 \/ StartsWith(tl, e.key \o <<".">>)
      hitK(e) == Contains(e.key, tl)
      skill(e) == <<e.label, e.category>>
      P == SelectSeq(PACKAGE_KEYWORD_MAP, hitP)
      K == SelectSeq(KEYWORD_MAP, hitK)
  IN  [i \in 1..Len(P) |-> skill(P[i])] \o [i \in 1..Len(K) |-> skill(K[i])]

(***************************************************************************)
(* Dicts                                                                   *)
(***************************************************************************)

\* d.setdefault(k, []).append(v) for a dict kept as a function key -> list.
SetDefaultAppend(d, k, v) ==
  [x \in (DOMAIN d) \cup {k} |->
      IF x # k THEN d[x]
      ELSE IF k \in DOMAIN d THEN Append(d[k], v) ELSE <<v>>]

\* for k in keys: d.setdefault(k, []).append(v)
RECURSIVE AppendEach(_, _, _)
AppendEach(d, keys, v) ==
  IF keys = <<>> THEN d
  ELSE AppendEach(SetDefaultAppend(d, Head(keys), v), Tail(keys), v)

\* The elements of a set as a list, in some order: iterating a Python set
\* where the order does not reach the state.
RECURSIVE AsList(_)
AsList(S) ==
  IF S = {} THEN <<>>
  ELSE LET x == CHOOSE y \in S : TRUE IN <<x>> \o AsList(S \ {x})

\* An insertion-ordered dict: a sequence of entries [k, v], no key twice.
HasKey(d, k) == \E i \in DOMAIN d : d[i].k = k

Get(d, k) == d[CHOOSE i \in DOMAIN d : d[i].k = k].v

Keys(d) == [i \in DOMAIN d |-> d[i].k]

\* d.get(k, {}) read as a set of labels, for a dict category -> labels.
LabelsOf(d, k) == IF HasKey(d, k) THEN Range(Get(d, k)) ELSE {}

\* d.setdefault(k, v)
SetDefault(d, k, v) ==
  IF HasKey(d, k) THEN d ELSE Append(d, [k |-> k, v |-> v])

\* d.setdefault(k, set()).add(x)
SetDefaultAdd(d, k, x) ==
  LET e == SetDefault(d, k, {})
  IN  [i \in DOMAIN e |-> IF e[i].k = k THEN [e[i] EXCEPT !.v = @ \cup {x}] ELSE e[i]]

\* d.setdefault(k, set()).update(xs)
SetDefaultUpdate(d, k, xs) ==
  LET e == SetDefault(d, k, {})
  IN  [i \in DOMAIN e |-> IF e[i].k = k THEN [e[i] EXCEPT !.v = @ \cup xs] ELSE e[i]]

\* {k: sorted(v) for k, v in d.items()}
SortedValues(d) == [i \in DOMAIN d |-> [k |-> d[i].k, v |-> SortedLabels(d[i].v)]]

(***************************************************************************)
(* The repositories that can be cloned                                     *)
(***************************************************************************)

\* What git finds at each location: the files of the work tree in the order
\* os.walk yields them, each with its path relative to the clone and its
\* text.  A location that is not listed cannot be cloned.
Remotes ==
  { [url   |-> <<"u", "/", "w", "e", "b">>,
     files |-> << [path    |-> <<"r", "e", "q", "u", "i", "r", "e", "m", "e", "n", "t", "s", ".", "t", "x", "t">>,
                   content |-> <<"f", "l", "a", "s", "k", "\n", "r", "e", "d", "i", "s", "\n">>] >>],
    [url   |-> <<"u", "/", "n", "o", "d", "e", ".", "g", "i", "t">>,
     files |-> << [path    |-> <<"p", "a", "c", "k", "a", "g", "e", ".", "j", "s", "o", "n">>,
                   content |-> <<"a", "w", "s", "-", "s", "d", "k">>] >>],
    [url   |-> <<"u", "/", "k", "8", "s", "/">>,
     files |-> << [path    |-> <<"a", ".", "t", "x", "t">>,
                   content |-> <<"k", "u", "b", "e", "r", "n", "e", "t", "e", "s">>],
                  [path    |-> <<"b", ".", "t", "x", "t">>,
                   content |-> <<"k", "u", "b", "e", "r", "n", "e", "t", "e", "s", " ", "k", "8", "s">>],
                  [path    |-> <<".", "g", "i", "t", "/", "c", "o", "n", "f", "i", "g">>,
                   content |-> <<"f", "l", "a", "s", "k">>] >>],
    [url   |-> <<"u", "/", "h", "p", "c">>,
     files |-> << [path    |-> <<"m", "a", "i", "n", ".", "c">>,
                   content |-> <<"#", "i", "n", "c", "l", "u", "d", "e", " ", "<", "m", "p", "i", ".", "h", ">">>],
                  [path    |-> <<"H", "e", "l", "m", "e", "t", ".", "j", "a", "v", "a">>,
                   content |-> <<"i", "m", "p", "o", "r", "t", " ", "K", "a", "f", "k", "a", ".", "P", ";">>] >>],
    [url   |-> <<"u", "/", "n", "o", "t", "e", "s">>,
     files |-> << [path    |-> <<"n", "o", "t", "e", "s", ".", "t", "x", "t">>,
                   content |-> <<"r", "e", "d", "i", "s", " ", "a", "w", "s", "-", "s", "d", "k">>] >>],
    [url   |-> <<"u", "/", "g", "u", "i">>,
     files |-> << [path    |-> <<"a", "p", "p", ".", "p", "y">>,
                   content |-> <<"i", "m", "p", "o", "r", "t", " ", "P", "y", "S", "i", "d", "e", "2", ".", "Q", "t">>],
                  [path    |-> <<"i", "n", "d", "e", "x", ".", "j", "s">>,
                   content |-> <<"i", "m", "p", "o", "r", "t", " ", "R", " ", "f", "r", "o", "m", " ", "'", "r", "e", "a", "c", "t", "-", "d", "o", "m", "/", "s", "'">>] >>] }

RemoteUrls == {r.url : r \in Remotes}

FilesAt(url) == (CHOOSE r \in Remotes : r.url = url).files

(***************************************************************************)
(* scan_repo                                                               *)
(***************************************************************************)

\* repo_url.rstrip("/").split("/")[-1].replace(".git", "")
RepoName(repo_url) ==
  RemoveAll(SplitLast(RStrip(repo_url, "/"), "/"), <<".", "g", "i", "t">>)

\* The result dict scan_repo starts from.  languages, file_extensions and
\* file_paths, which no tier depends on, are not modelled.
NewResult(repo_url) ==
  [ repo_url        |-> repo_url,
    repo_name       |-> RepoName(repo_url),
    cloned          |-> FALSE,
    errors          |-> <<>>,
    packages_found  |-> <<>>,
    imports_found   |-> {},
    manifest_tokens |-> {},
    candidate_skills_by_category |-> <<>>,
    accepted_skills_by_category  |-> <<>>,
    possible_skills_by_category  |-> <<>>,
    evidence        |-> <<>>,
    files_scanned   |-> 0 ]

\* os.walk(target) with ".git" removed from the directories to descend into.
UnderGit(path) ==
  \/ StartsWith(path, <<".", "g", "i", "t", "/">>)
  \/ Contains(<<"/", ".", "g", "i", "t", "/">>, path)

Walk(files) ==
  LET kept(f) == ~UnderGit(f.path) IN SelectSeq(files, kept)

\* for pkg in <extractor>(content): imports_found.add(pkg);
\*     packages_found.setdefault(pkg, []).append(rel)
AddImports(result, pkgs, rel) ==
  [result EXCEPT !.imports_found  = @ \cup pkgs,
                 !.packages_found = AppendEach(@, AsList(pkgs), rel)]

\* The C-family branch: packages_found only.
AddIncludes(result, toks, rel) ==
  [result EXCEPT !.packages_found = AppendEach(@, toks, rel)]

\* One taxonomy loop of scan_repo over a table.
TaxonomyPass(result, table, content_l, rel_l, rel) ==
  LET hit(e) == keyword_present(e.key, content_l) \/ keyword_present(e.key, rel_l)
      hits   == SelectSeq(table, hit)
  IN  [result EXCEPT
         !.packages_found = AppendEach(@, [i \in 1..Len(hits) |-> hits[i].key], rel),
         !.evidence       = AppendEach(@, [i \in 1..Len(hits) |-> hits[i].label], rel)]

\* The body of the loop over the files of the walk, for one file.
ScanOneFile(result, f) ==
  LET rel       == f.path
      filename  == SplitLast(rel, "/")
      rel_l     == Lower([i \in DOMAIN rel |-> IF rel[i] = "\\" THEN "/" ELSE rel[i]])
      ext       == Suffix(filename)
      content   == f.content
      content_l == Lower(content)
      tks       == FindAll([p \in 1..Len(content_l) |-> MANIFEST_TOKEN_RE(content_l, p)])
      r0 == [result EXCEPT !.files_scanned = @ + 1]
      r1 == IF Lower(filename) \in MANIFEST_FILES
            THEN [r0 EXCEPT !.manifest_tokens = @ \cup Range(tks),
                            !.packages_found  = AppendEach(@, tks, rel),
                            !.evidence        = SetDefaultAppend(@, "manifests", rel)]
            ELSE r0
      r2 == IF ext = <<".", "p", "y">>
            THEN AddImports(r1, extract_imports_from_py(content), rel) ELSE r1
      r3 == IF ext \in {<<".", "j", "s">>, <<".", "t", "s">>,
                        <<".", "j", "s", "x">>, <<".", "t", "s", "x">>}
            THEN AddImports(r2, extract_imports_from_js(content), rel) ELSE r2
      r4 == IF ext = <<".", "j", "a", "v", "a">>
            THEN AddImports(r3, extract_imports_from_java(content), rel) ELSE r3
      r5 == IF ext \in {<<".", "c">>, <<".", "h">>, <<".", "c", "p", "p">>,
                        <<".", "c", "c">>, <<".", "c", "x", "x">>}
            THEN AddIncludes(r4, include_tokens(content), rel) ELSE r4
      r6 == TaxonomyPass(r5, KEYWORD_MAP, content_l, rel_l, rel)
  IN  TaxonomyPass(r6, PACKAGE_KEYWORD_MAP, content_l, rel_l, rel)

\* all_tokens
AllTokens(result) ==
  {Lower(k) : k \in DOMAIN result.packages_found}
    \cup {Lower(t) : t \in result.imports_found}
    \cup {Lower(t) : t \in result.manifest_tokens}

\* The orders in which "for token in all_tokens" can iterate the set.
Orders(S) ==
  {o \in [1..Cardinality(S) -> S] : \A i, j \in DOMAIN o : i # j => o[i] # o[j]}

\* The loop of scan_repo over map_token_to_skill(token), for one token.
RECURSIVE MapSkills(_, _, _)
MapSkills(token, skills, c) ==
  IF skills = <<>> THEN c
  ELSE MapSkills(token, Tail(skills),
         [skills   |-> SetDefaultAdd(c.skills, Head(skills)[2], Head(skills)[1]),
          mappings |-> SetDefault(c.mappings, token, Head(skills))])

\* The loop "for token in all_tokens", iterating in the given order; c holds
\* candidate_skills and candidate_mappings.
RECURSIVE MapTokens(_, _)
MapTokens(order, c) ==
  IF order = <<>> THEN c
  ELSE MapTokens(Tail(order), MapSkills(Head(order), map_token_to_skill(Head(order)), c))

\* seen, for one token.
Seen(result, token) ==
  \/ token \in {Lower(t) : t \in result.imports_found}
  \/ token \in {Lower(t) : t \in result.manifest_tokens}
  \/ /\ token \in DOMAIN result.packages_found
     /\ Cardinality(Range(result.packages_found[token])) >= 2

\* The loop over candidate_mappings.items(); t holds accepted and possible.
RECURSIVE SplitTiers(_, _, _)
SplitTiers(result, mappings, t) ==
  IF mappings = <<>> THEN t
  ELSE LET token    == Head(mappings).k
           label    == Head(mappings).v[1]
           category == Head(mappings).v[2]
       IN  SplitTiers(result, Tail(mappings),
             IF Seen(result, token)
             THEN [t EXCEPT !.accepted = SetDefaultAdd(@, category, label)]
             ELSE [t EXCEPT !.possible = SetDefaultAdd(@, category, label)])

\* scan_repo after the walk: the evidence is de-duplicated, the token universe
\* is classified, iterating it in the given order, and the sets of the result
\* are turned into sorted lists.
Classify(result, order) ==
  LET r == [result EXCEPT
              !.evidence = [k \in DOMAIN @ |-> SortedPaths(Range(@[k]))]]
      c == MapTokens(order, [skills |-> <<>>, mappings |-> <<>>])
      t == SplitTiers(r, c.mappings, [accepted |-> <<>>, possible |-> <<>>])
  IN  [r EXCEPT
         !.candidate_skills_by_category = SortedValues(c.skills),
         !.accepted_skills_by_category  = SortedValues(t.accepted),
         !.possible_skills_by_category  = SortedValues(t.possible),
         !.packages_found  = [k \in DOMAIN @ |-> SortedPaths(Range(@[k]))],
         !.imports_found   = SortedPaths(@),
         !.manifest_tokens = SortedPaths(@)]

(***************************************************************************)
(* Aggregation and output                                                  *)
(***************************************************************************)

\* The loop of aggregate_results over one record's accepted tier.
RECURSIVE AddAccepted(_, _)
AddAccepted(agg, tier) ==
  IF tier = <<>> THEN agg
  ELSE AddAccepted(SetDefaultUpdate(agg, Head(tier).k, Range(Head(tier).v)), Tail(tier))

RECURSIVE AggregateFrom(_, _)
AggregateFrom(agg, repo_results) ==
  IF repo_results = <<>> THEN agg
  ELSE AggregateFrom(AddAccepted(agg, Head(repo_results).accepted_skills_by_category),
                     Tail(repo_results))

\* The aggregate built from the candidate tier instead of the accepted tier.
RECURSIVE AggregateCandidatesFrom(_, _)
AggregateCandidatesFrom(agg, repo_results) ==
  IF repo_results = <<>> THEN agg
  ELSE AggregateCandidatesFrom(
         AddAccepted(agg, Head(repo_results).candidate_skills_by_category),
         Tail(repo_results))

aggregate_candidates(repo_results) ==
  SortedValues(AggregateCandidatesFrom(<<>>, repo_results))

aggregate_results(repo_results) == SortedValues(AggregateFrom(<<>>, repo_results))

\* ", ".join(skills), as the list of its pieces.
RECURSIVE Join(_, _)
Join(skills, sep) ==
  IF skills = <<>> THEN <<>>
  ELSE IF Len(skills) = 1 THEN skills
  ELSE <<Head(skills), sep>> \o Join(Tail(skills), sep)

\* f"{cat}: {', '.join(skills)}." for each category, as the list of its pieces.
generate_resume_bullets(agg) ==
  [i \in DOMAIN agg |-> <<agg[i].k, ": ">> \o Join(agg[i].v, ", ") \o <<".">>]

\* make_json_safe on one record: the sets a record still holds (those of a
\* record returned before the walk) become sorted lists.
JsonSafeRecord(r) ==
  IF r.cloned THEN r
  ELSE [r EXCEPT !.imports_found = SortedPaths(@), !.manifest_tokens = SortedPaths(@)]

make_json_safe(res) ==
  [res EXCEPT !.repos = [i \in DOMAIN @ |-> JsonSafeRecord(@[i])]]

(***************************************************************************)
(* report_generator.py                                                     *)
(***************************************************************************)

FRAMEWORK_CATEGORIES ==
  {"ML/AI", "Web & APIs", "Frontend", "Data & Analysis", "Data & Big Data",
   "Frameworks", "Libraries"}

DEVTOOL_CATEGORIES ==
  {"Dev Tools", "CI/CD", "Build & Packaging", "Containers & Orchestration",
   "Cloud", "Testing", "Security / Auth", "Databases", "Messaging / Streaming",
   "Performance / GPU", "Serialization / RPC", "Other"}

collect_skills_by_categories(skill_map, categories) ==
  UNION {Range(skill_map[i].v) : i \in {j \in DOMAIN skill_map : skill_map[j].k \in categories}}

\* What the per-repository loop prints for one record: the four lists of
\* labels, each printed sorted under its heading (a heading with an empty
\* list prints no label).
ReportRepo(r) ==
  LET accepted == r.accepted_skills_by_category
      possible == r.possible_skills_by_category
  IN  [ name       |-> IF r.repo_name # <<>> THEN r.repo_name ELSE r.repo_url,
        frameworks |-> SortedLabels(collect_skills_by_categories(accepted, FRAMEWORK_CATEGORIES)),
        possible_frameworks |->
            SortedLabels(collect_skills_by_categories(possible, FRAMEWORK_CATEGORIES)),
        devtools   |-> SortedLabels(collect_skills_by_categories(accepted, DEVTOOL_CATEGORIES)),
        possible_devtools |->
            SortedLabels(collect_skills_by_categories(possible, DEVTOOL_CATEGORIES)) ]

\* The report printed for a results document: the per-repository sections in
\* order, then the aggregated confirmed lists.
Report(data) ==
  LET per == [i \in DOMAIN data.repos |-> ReportRepo(data.repos[i])]
  IN  [ repos          |-> per,
        agg_frameworks |-> SortedLabels(UNION {Range(per[i].frameworks) : i \in DOMAIN per}),
        agg_devtools   |-> SortedLabels(UNION {Range(per[i].devtools) : i \in DOMAIN per}) ]

(***************************************************************************)
(* main: the run of the scanner, then of the report on its output          *)
(***************************************************************************)

\* The longest repository list read from the input file.
MaxRepos == 2

\* The lists the input file can hold.
InputLists == UNION {[1..n -> RemoteUrls] : n \in 0..MaxRepos}

\* None for a variable that holds a value or nothing: the empty list, a value
\* v being held as <<v>>.
None == <<>>

Some(v) == <<v>>

The(o) == o[1]

\* No exception.
NoExc == "None"

VARIABLES
  pc,         \* where the run is: "start", "loop", "walk", "write", "finally", "exited"
  argc,       \* len(sys.argv)
  repos,      \* the list read from the input file
  workspace,  \* the scratch workspace: "absent" (never made), "present", "removed"
  targets,    \* the repository names that exist as directories in the workspace
  results,    \* the results dict of main
  result,     \* the result dict of the scan_repo call in progress
  files,      \* the files of the walk not yet visited
  exc,        \* the exception that ends the run, NoExc when there is none
  status,     \* the exit status, None while running
  output,     \* the document in the output file, None when it was not written
  report      \* what report_generator printed for the output file, None before

vars == <<pc, argc, repos, workspace, targets, results, result, files, exc, status,
          output, report>>

Init ==
  /\ pc = "start"
  /\ argc \in 1..3
  /\ repos = <<>>
  /\ workspace = "absent"
  /\ targets = {}
  /\ results = [repos |-> <<>>, aggregated |-> <<>>, summary |-> <<>>]
  /\ result = None
  /\ files = <<>>
  /\ exc = NoExc
  /\ status = None
  /\ output = None
  /\ report = None

\* main: fewer than two arguments; sys.exit(1) before anything is opened or made.
Usage ==
  /\ pc = "start"
  /\ argc < 3
  /\ exc' = "SystemExit"
  /\ status' = Some(1)
  /\ pc' = "exited"
  /\ UNCHANGED <<argc, repos, workspace, targets, results, result, files, output, report>>

\* main: the input file cannot be opened; the exception leaves main before the
\* workspace is made.
InputUnreadable ==
  /\ pc = "start"
  /\ argc >= 3
  /\ exc' = "OSError: input file"
  /\ status' = Some(1)
  /\ pc' = "exited"
  /\ UNCHANGED <<argc, repos, workspace, targets, results, result, files, output, report>>

\* main: the list is read, the workspace is made and the try block is entered.
Start ==
  /\ pc = "start"
  /\ argc >= 3
  /\ \E list \in InputLists : repos' = list
  /\ workspace' = "present"
  /\ pc' = "loop"
  /\ UNCHANGED <<argc, targets, results, result, files, exc, status, output, report>>

\* The repository the loop of main is at.
Current == repos[Len(results.repos) + 1]

\* scan_repo up to the walk: git clone succeeds.  git refuses a target
\* directory that exists and is not empty, and clones only what is there.
CloneOk ==
  /\ pc = "loop"
  /\ Len(results.repos) < Len(repos)
  /\ Current \in RemoteUrls
  /\ RepoName(Current) \notin targets
  /\ targets' = targets \cup {RepoName(Current)}
  /\ result' = Some([NewResult(Current) EXCEPT !.cloned = TRUE])
  /\ files' = Walk(FilesAt(Current))
  /\ pc' = "walk"
  /\ UNCHANGED <<argc, repos, workspace, results, exc, status, output, report>>

\* scan_repo: git exits with a non-zero status (subprocess.CalledProcessError);
\* the result is returned with the error and main appends it.
CloneFails ==
  /\ pc = "loop"
  /\ Len(results.repos) < Len(repos)
  /\ results' = [results EXCEPT !.repos =
        Append(@, [NewResult(Current) EXCEPT !.errors = <<"CalledProcessError">>])]
  /\ UNCHANGED <<pc, argc, repos, workspace, targets, result, files, exc, status, output, report>>

\* scan_repo: subprocess.run raises something else (git cannot be executed:
\* FileNotFoundError, PermissionError); no handler before the finally of main.
CloneRaises ==
  /\ pc = "loop"
  /\ Len(results.repos) < Len(repos)
  /\ exc' = "OSError: git"
  /\ pc' = "finally"
  /\ UNCHANGED <<argc, repos, workspace, targets, results, result, files, status, output, report>>

\* scan_repo: one file of the walk.
ScanFile ==
  /\ pc = "walk"
  /\ files # <<>>
  /\ result' = Some(ScanOneFile(The(result), Head(files)))
  /\ files' = Tail(files)
  /\ UNCHANGED <<pc, argc, repos, workspace, targets, results, exc, status, output, report>>

\* scan_repo after the walk, and the append of main.  The iteration order of
\* the token set is any.
Finish ==
  /\ pc = "walk"
  /\ files = <<>>
  /\ \E order \in Orders(AllTokens(The(result))) :
        results' = [results EXCEPT !.repos = Append(@, Classify(The(result), order))]
  /\ result' = None
  /\ pc' = "loop"
  /\ UNCHANGED <<argc, repos, workspace, targets, files, exc, status, output, report>>

\* main after the loop: the aggregate and the summary.
Aggregate ==
  /\ pc = "loop"
  /\ Len(results.repos) = Len(repos)
  /\ LET agg == aggregate_results(results.repos)
     IN  results' = [results EXCEPT
                       !.aggregated = agg,
                       !.summary = [resume_bullets |-> generate_resume_bullets(agg)]]
  /\ pc' = "write"
  /\ UNCHANGED <<argc, repos, workspace, targets, result, files, exc, status, output, report>>

\* main: the output file is written.
Write ==
  /\ pc = "write"
  /\ output' = Some(make_json_safe(results))
  /\ pc' = "finally"
  /\ UNCHANGED <<argc, repos, workspace, targets, results, result, files, exc, status, report>>

\* main: the output file cannot be opened for writing.
WriteRaises ==
  /\ pc = "write"
  /\ exc' = "OSError: output file"
  /\ pc' = "finally"
  /\ UNCHANGED <<argc, repos, workspace, targets, results, result, files, status, output, report>>

\* The removal written after the try block instead of in a finally clause: an
\* exception leaves main before it.
RemovalAfterTry ==
  /\ pc = "finally"
  /\ workspace' = IF exc = NoExc THEN "removed" ELSE workspace
  /\ targets' = IF exc = NoExc THEN {} ELSE targets
  /\ status' = Some(IF exc = NoExc THEN 0 ELSE 1)
  /\ pc' = "exited"
  /\ UNCHANGED <<argc, repos, results, result, files, exc, output, report>>

\* main: the finally clause, shutil.rmtree(workspace, ignore_errors=True),
\* then the process ends: normally, or with the exception's traceback.
Finally ==
  /\ pc = "finally"
  /\ workspace' = "removed"
  /\ targets' = {}
  /\ status' = Some(IF exc = NoExc THEN 0 ELSE 1)
  /\ pc' = "exited"
  /\ UNCHANGED <<argc, repos, results, result, files, exc, output, report>>

\* report_generator.py run on the output file.
PrintReport ==
  /\ pc = "exited"
  /\ output # None
  /\ report = None
  /\ report' = Some(Report(The(output)))
  /\ UNCHANGED <<pc, argc, repos, workspace, targets, results, result, files, exc, status, output>>

Next ==
  \/ Usage
  \/ InputUnreadable
  \/ Start
  \/ CloneOk
  \/ CloneFails
  \/ CloneRaises
  \/ ScanFile
  \/ Finish
  \/ Aggregate
  \/ Write
  \/ WriteRaises
  \/ Finally
  \/ PrintReport

Spec == Init /\ [][Next]_vars

(***************************************************************************)
(* Properties                                                              *)
(***************************************************************************)

\* The records main has collected, and those of repositories that were cloned.
Records == {results.repos[i] : i \in DOMAIN results.repos}

ScannedRecords == {r \in Records : r.cloned}

\* Every category of the two tables.
Categories ==
  {PACKAGE_KEYWORD_MAP[i].category : i \in DOMAIN PACKAGE_KEYWORD_MAP}
    \cup {KEYWORD_MAP[i].category : i \in DOMAIN KEYWORD_MAP}

Candidate(r, cat) == LabelsOf(r.candidate_skills_by_category, cat)

Accepted(r, cat) == LabelsOf(r.accepted_skills_by_category, cat)

Possible(r, cat) == LabelsOf(r.possible_skills_by_category, cat)

\* The token universe of a returned record (empty for a record returned before
\* the walk), and the skills a token maps to.
TokensOf(r) ==
  IF r.cloned
  THEN {Lower(k) : k \in DOMAIN r.packages_found}
         \cup {Lower(t) : t \in Range(r.imports_found)}
         \cup {Lower(t) : t \in Range(r.manifest_tokens)}
  ELSE {}

SkillsOf(token) == Range(map_token_to_skill(token))

FromImport(r, token) == token \in {Lower(t) : t \in Range(r.imports_found)}

FromManifest(r, token) == token \in {Lower(t) : t \in Range(r.manifest_tokens)}

\* The number of distinct paths in the token's provenance list.
PathCount(r, token) ==
  IF token \in DOMAIN r.packages_found
  THEN Cardinality(Range(r.packages_found[token])) ELSE 0

\* C1: in every record and category, the candidate tier is the set of labels
\* the tokens of the universe map to (every skill of every token), and it
\* equals the union of the accepted and possible tiers.
C1_CandidateIsAcceptedOrPossible ==
  \A r \in Records : \A cat \in Categories :
    /\ Candidate(r, cat) =
         {s[1] : s \in {s \in UNION {SkillsOf(t) : t \in TokensOf(r)} : s[2] = cat}}
    /\ Candidate(r, cat) = Accepted(r, cat) \cup Possible(r, cat)

\* C2: in every record and category, no label is both accepted and possible.
C2_AcceptedPossibleDisjoint ==
  \A r \in Records : \A cat \in Categories :
    Accepted(r, cat) \cap Possible(r, cat) = {}

\* C3: a token found by manifest tokenization, or with two or more distinct
\* paths in its provenance, has every skill it maps to in the accepted tier.
C3_ManifestOrRepeatedAccepted ==
  \A r \in ScannedRecords : \A t \in TokensOf(r) :
    (FromManifest(r, t) \/ PathCount(r, t) >= 2)
      => \A s \in SkillsOf(t) : s[1] \in Accepted(r, s[2])

\* The tokens the language-specific extractors find in a file.
ExtractorTokens(f) ==
  LET ext == Suffix(SplitLast(f.path, "/"))
  IN  (IF ext = <<".", "p", "y">> THEN extract_imports_from_py(f.content) ELSE {})
        \cup (IF ext \in {<<".", "j", "s">>, <<".", "t", "s">>,
                          <<".", "j", "s", "x">>, <<".", "t", "s", "x">>}
              THEN extract_imports_from_js(f.content) ELSE {})
        \cup (IF ext = <<".", "j", "a", "v", "a">>
              THEN extract_imports_from_java(f.content) ELSE {})
        \cup (IF ext \in {<<".", "c">>, <<".", "h">>, <<".", "c", "p", "p">>,
                          <<".", "c", "c">>, <<".", "c", "x", "x">>}
              THEN Range(include_tokens(f.content)) ELSE {})

\* C4: a token found by a language-specific extractor (Python, ECMAScript,
\* JVM, C-family) is in the import token set and in the provenance map, and
\* every skill it maps to is accepted, also when it occurs in one file only.
C4_ExtractedTokensAccepted ==
  \A r \in ScannedRecords :
    \A t \in UNION {ExtractorTokens(f) : f \in Range(Walk(FilesAt(r.repo_url)))} :
      /\ t \in Range(r.imports_found)
      /\ t \in DOMAIN r.packages_found
      /\ \A s \in SkillsOf(t) : s[1] \in Accepted(r, s[2])

\* C5: a skill whose every mapping token was found by no import extractor and
\* no manifest and has at most one distinct path is possible and not accepted.
C5_WeakHitIsPossible ==
  \A r \in ScannedRecords : \A s \in UNION {SkillsOf(t) : t \in TokensOf(r)} :
    (\A t \in TokensOf(r) :
        s \in SkillsOf(t) =>
          ~FromImport(r, t) /\ ~FromManifest(r, t) /\ PathCount(r, t) <= 1)
      => s[1] \in Possible(r, s[2]) /\ s[1] \notin Accepted(r, s[2])

\* The aggregate has been computed.
Aggregated == pc \in {"write", "finally", "exited"} /\ results.summary # <<>>

\* C6: the aggregate holds, for each category, exactly the union of the
\* records' accepted labels of that category (so no label that is only
\* possible or candidate), with a key for exactly the categories that have
\* one, and computing it leaves the records unchanged.
C6_AggregateIsUnionOfAccepted ==
  /\ [](Aggregated =>
          /\ \A cat \in Categories :
               LabelsOf(results.aggregated, cat) = UNION {Accepted(r, cat) : r \in Records}
          /\ \A i \in DOMAIN results.aggregated :
               /\ results.aggregated[i].k \in Categories
               /\ results.aggregated[i].v # <<>>
               /\ results.aggregated[i].v = SortedLabels(Range(results.aggregated[i].v)))
  /\ [][pc = "loop" /\ pc' = "write" => results'.repos = results.repos]_vars

\* Two records, one with an accepted label in the aggregate and one with a
\* label that is only possible, which the aggregate leaves out.
C6_Witness ==
  /\ Aggregated
  /\ Len(results.repos) = 2
  /\ \E r \in Records, cat \in Categories :
        /\ Accepted(r, cat) # {}
        /\ Accepted(r, cat) \subseteq LabelsOf(results.aggregated, cat)
  /\ \E r \in Records, cat \in Categories :
        \E l \in Possible(r, cat) : l \notin LabelsOf(results.aggregated, cat)

\* A record of a repository whose acquisition failed.
FailedRecord(r) ==
  /\ ~r.cloned
  /\ r.errors # <<>>
  /\ r.candidate_skills_by_category = <<>>
  /\ r.accepted_skills_by_category = <<>>
  /\ r.possible_skills_by_category = <<>>
  /\ r.files_scanned = 0

\* C7: when the list was read and the output file can be written, a run in
\* which some acquisitions fail, whatever the cause, ends with an output of
\* one entry per input repository in input order, the failed ones with an
\* error, empty tiers and no file traversed, and the aggregate of the others.
C7_AcquisitionFailureIsLocal ==
  (pc = "exited" /\ workspace # "absent" /\ exc # "OSError: output file")
    => /\ output # None
       /\ Len(The(output).repos) = Len(repos)
       /\ \A i \in DOMAIN repos :
            /\ The(output).repos[i].repo_url = repos[i]
            /\ The(output).repos[i].cloned \/ FailedRecord(The(output).repos[i])
       /\ The(output).aggregated =
            aggregate_results(SelectSeq(The(output).repos, LAMBDA r : r.cloned))

\* C8 as stated: on every exit path, the usage error included, the removal of
\* the scratch workspace has run; a usage error ends with a non-zero status
\* and no output file.
C8_RemovalRunsOnEveryExit ==
  pc = "exited" =>
    /\ workspace = "removed"
    /\ exc = "SystemExit" => status # Some(0) /\ output = None

\* C8, amended: the workspace exists only inside the try block; on every exit
\* path that made it (normal completion, failed scans, an exception while
\* scanning or writing) the removal has run; a usage error and an unreadable
\* input file end the run before the workspace is made, so nothing is removed
\* and none remains; a usage error ends with a non-zero status and no output.
C8_RemovalRunsAfterCreation ==
  /\ workspace = "present" <=> pc \in {"loop", "walk", "write", "finally"}
  /\ pc = "exited" =>
       /\ workspace = (IF exc \in {"SystemExit", "OSError: input file"}
                       THEN "absent" ELSE "removed")
       /\ targets = {}
       /\ exc = "SystemExit" => status = Some(1) /\ output = None

\* A run that cloned a repository, ended by an exception, with the workspace
\* removed.
C8_Witness ==
  /\ pc = "exited"
  /\ exc = "OSError: git"
  /\ Len(results.repos) = 1
  /\ results.repos[1].cloned
  /\ workspace = "removed"

\* The labels the report prints for a repository as confirmed, and as possible.
PrintedConfirmed(p) == Range(p.frameworks) \cup Range(p.devtools)

PrintedPossible(p) == Range(p.possible_frameworks) \cup Range(p.possible_devtools)

\* C9: the report prints, for every repository, every accepted label whatever
\* its category, and a possible label only for a category classified as
\* frameworks/libraries or development tools.
C9_ReportShowsEveryAcceptedLabel ==
  report # None =>
    \A i \in DOMAIN The(output).repos :
      LET r == The(output).repos[i]
          p == The(report).repos[i]
      IN  /\ \A cat \in Categories : Accepted(r, cat) \subseteq PrintedConfirmed(p)
          /\ PrintedPossible(p) =
               UNION {Possible(r, cat) :
                        cat \in FRAMEWORK_CATEGORIES \cup DEVTOOL_CATEGORIES}

\* C10: for the evidence of a finished walk, every iteration order of the
\* token universe gives the same order of categories in the three tiers of
\* the record, in the aggregate map built with it, and the same summary lines.
C10_OutputOrderIsDeterministic ==
  (pc = "walk" /\ files = <<>>) =>
    LET outs == {Classify(The(result), o) : o \in Orders(AllTokens(The(result)))}
        agg(x) == aggregate_results(Append(results.repos, x))
    IN  \A x, y \in outs :
          /\ Keys(x.candidate_skills_by_category) = Keys(y.candidate_skills_by_category)
          /\ Keys(x.accepted_skills_by_category) = Keys(y.accepted_skills_by_category)
          /\ Keys(x.possible_skills_by_category) = Keys(y.possible_skills_by_category)
          /\ Keys(agg(x)) = Keys(agg(y))
          /\ generate_resume_bullets(agg(x)) = generate_resume_bullets(agg(y))


\* The files of a walk scanned one after the other (the loop the action
\* ScanFile takes step by step).
RECURSIVE ScanFiles(_, _)
ScanFiles(r, fs) ==
  IF fs = <<>> THEN r ELSE ScanFiles(ScanOneFile(r, Head(fs)), Tail(fs))

\* The records scan_repo can return for a location that git fetches into a
\* scratch workspace nothing was fetched into before.
ScanAlone(url) ==
  LET r == ScanFiles([NewResult(url) EXCEPT !.cloned = TRUE], Walk(FilesAt(url)))
  IN  {Classify(r, o) : o \in Orders(AllTokens(r))}

\* The loop of main is about to scan a location git can fetch, after at
\* least one other scan of the run.
LaterScan ==
  /\ pc = "loop"
  /\ Len(results.repos) < Len(repos)
  /\ results.repos # <<>>
  /\ Current \in RemoteUrls

\* C11: scans do not interfere.  Whatever was scanned before in the run, a
\* location git can fetch can still be fetched and scanned, and every record
\* of a fetched repository is one its scan alone produces.
C11_ScansDoNotInterfere ==
  /\ LaterScan => ENABLED CloneOk
  /\ \A i \in 1..Len(results.repos) :
       results.repos[i].cloned =>
         results.repos[i] \in ScanAlone(results.repos[i].repo_url)

\* key occurs in text at position i.
OccursAt(key, text, i) ==
  /\ i >= 1
  /\ i + Len(key) - 1 <= Len(text)
  /\ SubSeq(text, i, i + Len(key) - 1) = key

\* key occurs in text as a plain substring.
SubstringIn(key, text) == \E i \in 1..(Len(text) - Len(key) + 1) : OccursAt(key, text, i)

\* key occurs in text as a whole word: an occurrence with no word character
\* right before it and none right after it.
WholeWordIn(key, text) ==
  \E i \in 1..(Len(text) - Len(key) + 1) :
    /\ OccursAt(key, text, i)
    /\ (i = 1 \/ text[i - 1] \notin WordChars)
    /\ (i + Len(key) > Len(text) \/ text[i + Len(key)] \notin WordChars)

\* The entries of the two taxonomy tables, each with its table.
TableEntries ==
  {<<"KEYWORD_MAP", KEYWORD_MAP[i]>> : i \in DOMAIN KEYWORD_MAP}
    \cup {<<"PACKAGE_KEYWORD_MAP", PACKAGE_KEYWORD_MAP[i]>> : i \in DOMAIN PACKAGE_KEYWORD_MAP}

\* The lower-cased content and the lower-cased path of a file, the two texts
\* the taxonomy test looks at.
ContentL(f) == Lower(f.content)

RelL(f) == Lower([i \in DOMAIN f.path |-> IF f.path[i] = "\\" THEN "/" ELSE f.path[i]])

\* What the taxonomy test of a file is to find for a key in the two texts:
\* a whole word for a key of at most 4 characters, a substring for a longer
\* key.
MatchExpected(key, content_l, rel_l) ==
  IF Len(key) <= 4
  THEN WholeWordIn(key, content_l) \/ WholeWordIn(key, rel_l)
  ELSE SubstringIn(key, content_l) \/ SubstringIn(key, rel_l)

\* The tokens the manifest tokenization of file f records.
ManifestTokensOf(f) ==
  IF Lower(SplitLast(f.path, "/")) \in MANIFEST_FILES
  THEN Range(FindAll([p \in 1..Len(ContentL(f)) |-> MANIFEST_TOKEN_RE(ContentL(f), p)]))
  ELSE {}

\* The number of paths recorded under key k of a dict of path lists.
PathsUnder(d, k) == IF k \in DOMAIN d THEN Len(d[k]) ELSE 0

\* The keys of each taxonomy table and the labels of both.
KeywordKeys == {KEYWORD_MAP[i].key : i \in DOMAIN KEYWORD_MAP}

PackageKeys == {PACKAGE_KEYWORD_MAP[i].key : i \in DOMAIN PACKAGE_KEYWORD_MAP}

TableKeys == KeywordKeys \cup PackageKeys

TableLabels == {e[2].label : e \in TableEntries}

\* The scan of file f took the record from r to s: what the taxonomy test
\* recorded.  A key that is to match is an observed token whose last path is
\* the path of f, once more per table that holds it; a key that is not to
\* match, and that no extractor and no manifest tokenization found in f,
\* gained no path; the evidence of a label gained the path of f once per
\* table entry of that label whose key is to match, and nothing else.
TaxonomyRecorded(r, s, f) ==
  LET content_l == ContentL(f)
      rel_l   == RelL(f)
      matched == {key \in TableKeys : MatchExpected(key, content_l, rel_l)}
      others  == ExtractorTokens(f) \cup ManifestTokensOf(f)
      hits    == {e \in TableEntries : e[2].key \in matched}
  IN  /\ \A key \in TableKeys :
            LET n   == (IF key \in KeywordKeys THEN 1 ELSE 0)
                         + (IF key \in PackageKeys THEN 1 ELSE 0)
                was == PathsUnder(r.packages_found, key)
                now == PathsUnder(s.packages_found, key)
            IN  IF key \in matched
                THEN /\ now >= was + n
                     /\ s.packages_found[key][now] = f.path
                ELSE now = was \/ key \in others
      /\ \A label \in TableLabels :
            LET was == PathsUnder(r.evidence, label)
                now == PathsUnder(s.evidence, label)
            IN  /\ now = was + Cardinality({e \in hits : e[2].label = label})
                /\ \A i \in (was + 1)..now : s.evidence[label][i] = f.path

\* C12: in the scan of a file, a table key of at most 4 characters is
\* recorded with the file's path exactly when it occurs as a whole word in
\* the lower-cased content or path, a longer key exactly when it occurs there
\* as a substring, and each recorded match appends the path to the evidence
\* of the key's label.
C12_TaxonomyMatchesByKeyLength ==
  [][(pc = "walk" /\ files # <<>>) =>
       TaxonomyRecorded(The(result), The(result'), Head(files))]_vars

\* The walk of u/hpc is over: "mpi" (3 characters) was recorded as a whole
\* word of the content of main.c and "kafka" as a substring of the content
\* of Helmet.java, and not "helm" (4 characters), which occurs in the path
\* helmet.java inside a longer word only.
C12_Witness ==
  /\ pc = "walk"
  /\ files = <<>>
  /\ result # None
  /\ The(result).repo_url = <<"u", "/", "h", "p", "c">>
  /\ LET pf == The(result).packages_found
     IN  /\ <<"m", "p", "i">> \in DOMAIN pf
         /\ Range(pf[<<"m", "p", "i">>]) = {<<"m", "a", "i", "n", ".", "c">>}
         /\ <<"k", "a", "f", "k", "a">> \in DOMAIN pf
         /\ <<"h", "e", "l", "m">> \notin DOMAIN pf
  /\ Range(The(result).evidence["MPI"]) = {<<"m", "a", "i", "n", ".", "c">>}
=============================================================================
